---- MODULE Spec2Model ----
(***************************************************************************)
(* cougarnet/virtualnet.py: the topology graph built by the parser, the    *)
(* enumeration of its links, and the controller's session (config, start,  *)
(* message loop, cleanup) running against the spawned host processes.      *)
(***************************************************************************)
EXTENDS Integers, Sequences, FiniteSets, TLC

(***************************************************************************)
(* Bounds of the model.                                                    *)
(***************************************************************************)
\* Longest topology description (lines that reach import_node/import_link).
MaxLines == 3
\* Most successful unmounts of one namespace path (its number of mounts).
MaxMounts == 1
\* Most datagrams received by message_loop.
MaxMsgs == 2
\* Width of an address in bits.
AddrBits == 2

(***************************************************************************)
(* Python values.                                                          *)
(***************************************************************************)
\* Python's None, for the fields that otherwise hold a string.
None == "None"

\* An ordered dict: a sequence of <<key, value>> in insertion order.
DictHas(d, k) ==
    \E i \in 1..Len(d) : d[i][1] = k

DictGet(d, k) ==
    d[CHOOSE i \in 1..Len(d) : d[i][1] = k][2]

\* d[k] = v : a key already present keeps its position.
DictSet(d, k, v) ==
    IF DictHas(d, k)
    THEN [i \in 1..Len(d) |-> IF d[i][1] = k THEN <<k, v>> ELSE d[i]]
    ELSE Append(d, <<k, v>>)

RECURSIVE Pow2(_)
Pow2(n) ==
    IF n = 0 THEN 1 ELSE 2 * Pow2(n - 1)

(***************************************************************************)
(* Host (the fields set during parsing) and the graph.  Host objects live  *)
(* in net.heap and are referred to by their index: host_by_name and the    *)
(* neighbor fields hold references, as the Python dicts do.                *)
(***************************************************************************)
Host(hostname, gw4, gw6, type) ==
    [hostname |-> hostname, next_int_num |-> 0,
     int_to_neighbor |-> <<>>, neighbor_to_int |-> <<>>,
     int_to_mac |-> <<>>, int_to_ip4 |-> <<>>, int_to_ip6 |-> <<>>,
     gw4 |-> gw4, gw6 |-> gw6, type |-> type]

VirtualNetwork ==
    [heap |-> <<>>, host_by_name |-> <<>>]

\* Host(...) : allocates a new object.
Alloc(net, h) ==
    [net EXCEPT !.heap = Append(@, h)]

\* f'{hostname}-eth{num}'
IntfName(hostname, num) ==
    <<hostname, "-eth", num>>

\* Host.next_int, on the object id: the number returned.
next_int(net, id) ==
    net.heap[id].next_int_num

\* Host.next_int, on the object id: the graph afterwards.
NoIncrement(net, id) ==
    net

next_int_net(net, id) ==
    [net EXCEPT !.heap[id].next_int_num = @ + 1]

\* Host.add_int
add_int(net, id, intf, neighbor) ==
    [net EXCEPT !.heap[id].int_to_neighbor = DictSet(@, intf, neighbor),
                !.heap[id].neighbor_to_int = DictSet(@, neighbor, intf)]

\* VirtualNetwork.add_link on two Host objects (import_link passes objects).
add_link(net, host1, host2) ==
    LET num1 == next_int(net, host1)
        n1 == next_int_net(net, host1)
        num2 == next_int(n1, host2)
        n2 == next_int_net(n1, host2)
        int1 == IntfName(n2.heap[host1].hostname, num1)
        int2 == IntfName(n2.heap[host2].hostname, num2)
        n3 == add_int(n2, host1, int1, host2)
    IN add_int(n3, host2, int2, host1)

(***************************************************************************)
(* The parser.  A line is the sequence of its whitespace-separated parts.  *)
(* A node line is <<hostname>> or <<hostname, attrs>>; a link line is      *)
(* <<endpoint1, endpoint2>> or <<endpoint1, endpoint2, attrs>>.  An        *)
(* endpoint is the sequence of its comma-separated fields, the hostname    *)
(* first; attrs is the sequence of its comma-separated items.  A parser    *)
(* operation yields [err, net]: the exception raised (None: none) and the  *)
(* graph as it then is.                                                    *)
(***************************************************************************)
\* MAC_RE.search(addr) is not None
IsMac(addr) ==
    addr.t = "mac"

\* str(ipaddress.IPv4Network(addr, strict=False)), and IPv6Network: the
\* address with its host bits cleared, and the prefix length.
Subnet(addr) ==
    LET unit == Pow2(AddrBits - addr.plen)
    IN <<(addr.bits \div unit) * unit, addr.plen>>

\* One turn of import_int's loop over addrs; st holds mac, addrs4, addrs6,
\* subnet4, subnet6 (an optional value is <<>> for None or <<v>>) and err.
ScanAddr(st, addr) ==
    IF IsMac(addr)
    THEN IF st.mac # <<>>
         THEN [st EXCEPT !.err = "ValueError"]
         ELSE [st EXCEPT !.mac = <<addr>>]
    ELSE IF ~addr.slash
    THEN [st EXCEPT !.err = "ValueError"]
    ELSE IF addr.fam = 6
    THEN LET subnet == Subnet(addr)
             subnet6 == IF st.subnet6 = <<>> THEN <<subnet>> ELSE st.subnet6
         IN IF subnet6 # <<subnet>>
            THEN [st EXCEPT !.subnet6 = subnet6, !.err = "ValueError"]
            ELSE [st EXCEPT !.subnet6 = subnet6, !.addrs6 = Append(@, addr)]
    ELSE LET subnet == Subnet(addr)
             subnet4 == IF st.subnet4 = <<>> THEN <<subnet>> ELSE st.subnet4
         IN IF subnet4 # <<subnet>>
            THEN [st EXCEPT !.subnet4 = subnet4, !.err = "ValueError"]
            ELSE [st EXCEPT !.subnet4 = subnet4, !.addrs4 = Append(@, addr)]

RECURSIVE ScanAddrs(_, _)
ScanAddrs(st, addrs) ==
    IF addrs = <<>> \/ st.err # None
    THEN st
    ELSE ScanAddrs(ScanAddr(st, Head(addrs)), Tail(addrs))

\* if hostname not in self.host_by_name: self.host_by_name[hostname] = Host(hostname)
RegisterIfAbsent(net, hostname) ==
    IF DictHas(net.host_by_name, hostname)
    THEN net
    ELSE LET n1 == Alloc(net, Host(hostname, None, None, "node"))
         IN [n1 EXCEPT !.host_by_name = DictSet(@, hostname, Len(n1.heap))]

\* import_int's last three statements.
Lookup(n1, hostname, st) ==
    [err |-> None, net |-> n1, host |-> DictGet(n1.host_by_name, hostname),
     st |-> st]

\* import_int after its loop over addrs.
ImportIntScanned(net, hostname, st) ==
    IF st.err # None
    THEN [err |-> st.err, net |-> net, host |-> 0, st |-> st]
    ELSE Lookup(RegisterIfAbsent(net, hostname), hostname, st)

\* VirtualNetwork.import_int
import_int(net, hostname_addr) ==
    ImportIntScanned(net, hostname_addr[1],
        ScanAddrs([mac |-> <<>>, addrs4 |-> <<>>, addrs6 |-> <<>>,
                   subnet4 |-> <<>>, subnet6 |-> <<>>, err |-> None],
                  Tail(hostname_addr)))

\* dict([p.split('=', maxsplit=1) for p in part.split(',')]) raises
\* ValueError on an item without '='.
AttrsMalformed(attrs) ==
    \E i \in 1..Len(attrs) : ~attrs[i].eq

AttrKeys(attrs) ==
    {attrs[i].key : i \in 1..Len(attrs)}

\* The value the dict holds for key (the last item wins), or dflt.
AttrValue(attrs, key, dflt) ==
    LET at == {i \in 1..Len(attrs) : attrs[i].key = key}
    IN IF at = {} THEN dflt
       ELSE attrs[CHOOSE i \in at : \A j \in at : j <= i].val

\* Keyword parameters of Host.__init__ and of add_link.
HostKeywords == {"gw4", "gw6", "type"}
LinkKeywords == {"bw", "delay"}

SetOf(seq) ==
    {seq[i] : i \in 1..Len(seq)}

\* host.int_to_X[host.neighbor_to_int[other]] = value, for X in mac, ip4, ip6
SetIntMac(net, host, other, value) ==
    [net EXCEPT !.heap[host].int_to_mac =
        DictSet(@, DictGet(net.heap[host].neighbor_to_int, other), value)]

SetIntIp4(net, host, other, value) ==
    [net EXCEPT !.heap[host].int_to_ip4 =
        DictSet(@, DictGet(net.heap[host].neighbor_to_int, other), value)]

SetIntIp6(net, host, other, value) ==
    [net EXCEPT !.heap[host].int_to_ip6 =
        DictSet(@, DictGet(net.heap[host].neighbor_to_int, other), value)]

\* import_link after both import_int calls: the cross-endpoint checks.
NoSubnetCheck(st1, st2) ==
    IF SetOf(st1.addrs4) \cap SetOf(st2.addrs4) # {} THEN "ValueError"
    ELSE IF SetOf(st1.addrs6) \cap SetOf(st2.addrs6) # {} THEN "ValueError"
    ELSE None

CrossCheck(st1, st2) ==
    IF SetOf(st1.addrs4) \cap SetOf(st2.addrs4) # {} THEN "ValueError"
    ELSE IF st1.subnet4 # <<>> /\ st2.subnet4 # <<>> /\ st1.subnet4 # st2.subnet4
    THEN "ValueError"
    ELSE IF SetOf(st1.addrs6) \cap SetOf(st2.addrs6) # {} THEN "ValueError"
    ELSE IF st1.subnet6 # <<>> /\ st2.subnet6 # <<>> /\ st1.subnet6 # st2.subnet6
    THEN "ValueError"
    ELSE None

\* The attribute list of a line given to a function with these keywords.
AttrsCheck(attrs, keywords) ==
    IF AttrsMalformed(attrs) THEN "ValueError"
    ELSE IF ~(AttrKeys(attrs) \subseteq keywords) THEN "TypeError"
    ELSE None

\* import_link's last seven statements: add_link and the six assignments.
Record6(n5, host1, host2, st1, st2) ==
    SetIntIp6(SetIntIp6(n5, host1, host2, st1.addrs6), host2, host1, st2.addrs6)

Record4(n3, host1, host2, st1, st2) ==
    Record6(SetIntIp4(SetIntIp4(n3, host1, host2, st1.addrs4),
                      host2, host1, st2.addrs4),
            host1, host2, st1, st2)

RecordMac(n1, host1, host2, st1, st2) ==
    Record4(SetIntMac(SetIntMac(n1, host1, host2, st1.mac), host2, host1, st2.mac),
            host1, host2, st1, st2)

LinkAndRecord(net, host1, host2, st1, st2) ==
    RecordMac(add_link(net, host1, host2), host1, host2, st1, st2)

\* import_link from the second import_int on.
ImportLinkSecond(r1, r2, attrs) ==
    IF r2.err # None THEN [err |-> r2.err, net |-> r1.net]
    ELSE IF CrossCheck(r1.st, r2.st) # None
    THEN [err |-> "ValueError", net |-> r2.net]
    ELSE IF AttrsCheck(attrs, LinkKeywords) # None
    THEN [err |-> AttrsCheck(attrs, LinkKeywords), net |-> r2.net]
    ELSE [err |-> None,
          net |-> LinkAndRecord(r2.net, r1.host, r2.host, r1.st, r2.st)]

\* import_link from the first import_int on.
ImportLinkFirst(net, r1, parts) ==
    IF r1.err # None THEN [err |-> r1.err, net |-> net]
    ELSE ImportLinkSecond(r1, import_int(r1.net, parts[2]),
                          IF Len(parts) > 2 THEN parts[3] ELSE <<>>)

\* VirtualNetwork.import_link
import_link(net, parts) ==
    IF Len(parts) < 2 \/ Len(parts) > 3
    THEN [err |-> "ValueError", net |-> net]
    ELSE ImportLinkFirst(net, import_int(net, parts[1]), parts)

\* self.host_by_name[hostname] = Host(hostname, **attrs)
Register(net, hostname, h) ==
    LET n1 == Alloc(net, h)
    IN [n1 EXCEPT !.host_by_name = DictSet(@, hostname, Len(n1.heap))]

\* VirtualNetwork.import_node
import_node(net, parts) ==
    IF Len(parts) < 1 \/ Len(parts) > 2
    THEN [err |-> "ValueError", net |-> net]
    ELSE
    LET hostname == parts[1]
        attrs == IF Len(parts) > 1 THEN parts[2] ELSE <<>>
    IN IF AttrsMalformed(attrs)
       THEN [err |-> "ValueError", net |-> net]
       ELSE IF ~(AttrKeys(attrs) \subseteq HostKeywords)
       THEN [err |-> "TypeError", net |-> net]
       ELSE [err |-> None,
             net |-> Register(net, hostname,
                        Host(hostname, AttrValue(attrs, "gw4", None),
                             AttrValue(attrs, "gw6", None),
                             AttrValue(attrs, "type", "node")))]

\* One turn of from_file's loop.  A file line is [k, parts]: k is "NODES" or
\* "LINKS" for a section header, "skip" for a blank line or a comment, and
\* "node" or "link" for a line of that shape.  cur is [mode, err, net].
Imported(cur, r) ==
    [cur EXCEPT !.err = r.err, !.net = r.net]

FileLine(cur, line) ==
    IF line.k = "NODES" THEN [cur EXCEPT !.mode = "node"]
    ELSE IF line.k = "LINKS" THEN [cur EXCEPT !.mode = "link"]
    ELSE IF line.k = "skip" THEN cur
    ELSE IF cur.mode = "node" THEN Imported(cur, import_node(cur.net, line.parts))
    ELSE IF cur.mode = "link" THEN Imported(cur, import_link(cur.net, line.parts))
    ELSE cur

RECURSIVE ReadLines(_, _)
ReadLines(cur, lines) ==
    IF lines = <<>> \/ cur.err # None
    THEN cur
    ELSE ReadLines(FileLine(cur, Head(lines)), Tail(lines))

\* VirtualNetwork.from_file
from_file(fh) ==
    ReadLines([mode |-> None, err |-> None, net |-> VirtualNetwork], fh)

(***************************************************************************)
(* Link enumeration: the two nested loops of apply_links and of display,   *)
(* with their done set.                                                    *)
(***************************************************************************)
RECURSIVE Flatten(_)
Flatten(seqs) ==
    IF seqs = <<>> THEN <<>> ELSE Head(seqs) \o Flatten(Tail(seqs))

\* for hostname, host in self.host_by_name.items():
\*     for intf, neighbor in host.int_to_neighbor.items():
Visits(net) ==
    Flatten([i \in 1..Len(net.host_by_name) |->
        LET host == net.host_by_name[i][2]
            items == net.heap[host].int_to_neighbor
        IN [j \in 1..Len(items) |->
               [host1 |-> host, int1 |-> items[j][1], host2 |-> items[j][2]]]])

\* The done tuples added for one emitted link.
DoneTuples(host1, host2, int1, int2) ==
    {<<host1, host2, int1, int2>>, <<host2, host1, int2, int1>>}

\* The inner loop's body once int2 is known; acc is [done, out, err].
Emit(acc, v, int2) ==
    IF <<v.host1, v.host2, v.int1, int2>> \in acc.done
    THEN acc
    ELSE [acc EXCEPT
            !.done = @ \cup DoneTuples(v.host1, v.host2, v.int1, int2),
            !.out = Append(@, [host1 |-> v.host1, int1 |-> v.int1,
                               host2 |-> v.host2, int2 |-> int2])]

\* One turn of the inner loop: int2 = host2.neighbor_to_int[host]
EnumStep(net, acc, v) ==
    IF ~DictHas(net.heap[v.host2].neighbor_to_int, v.host1)
    THEN [acc EXCEPT !.err = "KeyError"]
    ELSE Emit(acc, v, DictGet(net.heap[v.host2].neighbor_to_int, v.host1))

RECURSIVE EnumLoop(_, _, _)
EnumLoop(net, acc, visits) ==
    IF visits = <<>> \/ acc.err # None
    THEN acc
    ELSE EnumLoop(net, EnumStep(net, acc, Head(visits)), Tail(visits))

LinkEnum(net) ==
    EnumLoop(net, [done |-> {}, out |-> <<>>, err |-> None], Visits(net))

\* The link-creation commands of apply_links, in order, were each to succeed:
\* ip link add int1 netns <host1.hostname> type veth peer name int2 netns
\* <host2.hostname>.
Commands(net, e) ==
    [err |-> e.err,
     cmds |-> [k \in 1..Len(e.out) |->
                 [int1 |-> e.out[k].int1,
                  netns1 |-> net.heap[e.out[k].host1].hostname,
                  int2 |-> e.out[k].int2,
                  netns2 |-> net.heap[e.out[k].host2].hostname,
                  host1 |-> e.out[k].host1, host2 |-> e.out[k].host2]]]

apply_links(net) ==
    Commands(net, LinkEnum(net))

\* Host.label_for_int reads int_to_ip4[intf] and int_to_ip6[intf].
LabelRaises(net, host, intf) ==
    ~DictHas(net.heap[host].int_to_ip4, intf)
        \/ ~DictHas(net.heap[host].int_to_ip6, intf)

\* The G.add_edge calls of display, up to the first one whose labels raise.
Prepend(l, rest) ==
    [err |-> rest.err, edges |-> <<l>> \o rest.edges]

RECURSIVE EdgesUntilRaise(_, _)
EdgesUntilRaise(net, ls) ==
    IF ls = <<>> THEN [err |-> None, edges |-> <<>>]
    ELSE IF LabelRaises(net, ls[1].host1, ls[1].int1)
            \/ LabelRaises(net, ls[1].host2, ls[1].int2)
    THEN [err |-> "KeyError", edges |-> <<>>]
    ELSE Prepend(ls[1], EdgesUntilRaise(net, Tail(ls)))

Edges(net, e) ==
    IF e.err # None THEN [err |-> e.err, edges |-> <<>>]
    ELSE EdgesUntilRaise(net, e.out)

display(net) ==
    Edges(net, LinkEnum(net))

(***************************************************************************)
(* State.                                                                  *)
(***************************************************************************)
VARIABLES
    net,            \* the VirtualNetwork: heap of Host objects, host_by_name
    \* from_file, line by line
    mode,           \* from_file's mode
    nlines,         \* node and link lines read
    line,           \* the line handed last to import_node / import_link
    perr,           \* the exception that ended from_file (None: none)
    accepted,       \* per accepted link line: its parts, the names it gave, the ends it made
    shown,          \* <<>>, or <<the commands of apply_links, the edges of display>>
    \* main
    args,           \* [config_file, display]: the command line
    pc,             \* where the controller is
    idx,            \* position of the running for loop in host_by_name / the links
    none_exists,    \* wait_for_startup's flag
    error,          \* the exception propagating out of the try block (type None: none)
    hist,           \* what main has done so far
    \* Host fields set at run time, per Host object
    pid,            \* self.pid: 0 for None
    pidfile,        \* self.pidfile is set
    config_file,    \* self.config_file is set
    \* VirtualNetwork fields set at run time
    hosts_file,     \* self.hosts_file is set
    commsock_file,  \* self.commsock_file is set
    commsock,       \* self.commsock: "unset", "bound", "closed"
    \* the machine
    netns,          \* per host: /run/netns/<hostname> was touched
    pidDisk,        \* per host: its pid artifact: "absent", "empty", "valid"
    spawner,        \* per host: the terminal spawned by Popen: "none", "running", "exited"
    proc,           \* per host: the in-namespace process: "none", "alive", "dead"
    hups,           \* per host: HUP signals sent to it
    links,          \* link-creation commands that have completed
    cleaned,        \* per host: the teardown steps attempted, in order
    umounts,        \* per host: unmounts that succeeded
    sessionRm,      \* teardown steps of VirtualNetwork.cleanup attempted, in order
    \* message_loop
    bound,          \* the locals hostname, msg: <<>> while unbound, else <<hostname, msg>>
    out,            \* lines printed on stdout
    diag,           \* diagnostics written to stderr
    nrecv           \* datagrams received

parseVars == <<mode, nlines, line, perr, accepted, shown>>
hostVars == <<pid, pidfile, config_file>>
netVars == <<hosts_file, commsock_file, commsock>>
osVars == <<netns, pidDisk, spawner, proc, hups, links>>
downVars == <<cleaned, umounts, sessionRm>>
busVars == <<bound, out, diag, nrecv>>
mainVars == <<args, pc, idx, none_exists, error, hist>>
runVars == <<mainVars, hostVars, netVars, osVars, downVars, busVars>>
vars == <<net, parseVars, runVars>>

\* An exception: its type, the host it names, the function that raised it.
NoError == [type |-> None, host |-> None, at |-> None]

\* Every Host object of the graph, registered or not.
Objects == 1..Len(net.heap)

\* The registered Host objects, in host_by_name's order.
HostSeq == [i \in 1..Len(net.host_by_name) |-> net.host_by_name[i][2]]

RunInit ==
    /\ pc = "idle"
    /\ idx = 0
    /\ none_exists = TRUE
    /\ error = NoError
    /\ hist = {}
    /\ pid = <<>> /\ pidfile = <<>> /\ config_file = <<>>
    /\ hosts_file = FALSE /\ commsock_file = FALSE /\ commsock = "unset"
    /\ netns = <<>> /\ pidDisk = <<>> /\ spawner = <<>> /\ proc = <<>>
    /\ hups = <<>> /\ links = 0
    /\ cleaned = <<>> /\ umounts = <<>> /\ sessionRm = <<>>
    /\ bound = <<>> /\ out = <<>> /\ diag = 0 /\ nrecv = 0

(***************************************************************************)
(* The inputs: topology descriptions.                                      *)
(***************************************************************************)
HostNames == {"a", "b", "c"}

\* An address is compared as written and its subnet is computed from its
\* value: form tells two ways of writing one value apart (10.0.0.1/24 and
\* 10.0.0.1/255.255.255.0; fd00::1/64 and FD00::1/64).
Ip4(bits, plen) ==
    [t |-> "ip", fam |-> 4, bits |-> bits, plen |-> plen, slash |-> TRUE,
     form |-> "prefix"]

Ip4Mask(bits, plen) ==
    [t |-> "ip", fam |-> 4, bits |-> bits, plen |-> plen, slash |-> TRUE,
     form |-> "netmask"]

Ip6(bits, plen) ==
    [t |-> "ip", fam |-> 6, bits |-> bits, plen |-> plen, slash |-> TRUE,
     form |-> "prefix"]

NoPrefix(bits) ==
    [t |-> "ip", fam |-> 4, bits |-> bits, plen |-> AddrBits, slash |-> FALSE,
     form |-> "prefix"]

Mac(v) ==
    [t |-> "mac", v |-> v]

Attr(key, val) ==
    [key |-> key, eq |-> TRUE, val |-> val]

NoEquals(key) ==
    [key |-> key, eq |-> FALSE, val |-> None]

NodeLineSet ==
    {<<h>> : h \in HostNames}
        \cup {<<"a", <<Attr("type", "router")>>>>,
              <<"a", <<Attr("gw4", "g4"), Attr("gw6", "g6")>>>>,
              <<"a", <<Attr("color", "red")>>>>,
              <<"a", <<NoEquals("router")>>>>,
              <<"a", <<Attr("type", "router")>>, <<Attr("gw4", "g4")>>>>}

PlainEndpoints == {<<h>> : h \in HostNames}

LinkLineSet ==
    {<<e1, e2>> : e1 \in PlainEndpoints, e2 \in PlainEndpoints}
        \cup {<<<<"a", Ip4(1, 1)>>, <<"b", Ip4(0, 1)>>>>,
              <<<<"a", Ip4(1, 1)>>, <<"b", Ip4(1, 1)>>>>,
              <<<<"a", Ip4(1, 1)>>, <<"b", Ip4(2, 1)>>>>,
              <<<<"a", Ip4(1, 1)>>, <<"b", Ip4Mask(1, 1)>>>>,
              <<<<"a", Mac("m1"), Ip4(1, 1), Ip6(1, 1)>>, <<"b", Ip6(0, 1)>>>>,
              <<<<"a", Ip6(1, 1)>>, <<"b", Ip6(1, 1)>>>>,
              <<<<"a", Ip6(1, 1)>>, <<"b", Ip6(2, 1)>>>>,
              <<<<"a", Ip4(0, 1), Ip4(2, 1)>>, <<"b">>>>,
              <<<<"a", Mac("m1"), Mac("m2")>>, <<"b">>>>,
              <<<<"a">>, <<"b", NoPrefix(1)>>>>,
              <<<<"a">>, <<"b">>, <<Attr("bw", "10"), Attr("delay", "5")>>>>,
              <<<<"a">>, <<"b">>, <<Attr("speed", "10")>>>>,
              <<<<"a">>, <<"b">>, <<NoEquals("bw")>>>>,
              <<<<"a">>>>,
              <<<<"a">>, <<"b">>, <<Attr("bw", "10")>>, <<Attr("delay", "5")>>>>}

(***************************************************************************)
(* from_file, one line at a time.  Node-shaped lines are read in the NODES *)
(* section and link-shaped lines in the LINKS section.                     *)
(***************************************************************************)
\* The lines of a file, as FileLine takes them.
NODES == [k |-> "NODES", parts |-> <<>>]
LINKS == [k |-> "LINKS", parts |-> <<>>]
NodeLine(parts) == [k |-> "node", parts |-> parts]
LinkLine(parts) == [k |-> "link", parts |-> parts]

Comment == [k |-> "skip", parts |-> <<>>]

ParseInit ==
    /\ net = VirtualNetwork
    /\ mode = None
    /\ nlines = 0
    /\ line = Comment
    /\ perr = None
    /\ accepted = <<>>
    /\ shown = <<>>
    /\ args = [config_file |-> <<>>, display |-> FALSE]
    /\ RunInit

Reading ==
    perr = None /\ shown = <<>>

\* The interfaces of object id in graph n.
IntfsOf(n, id) ==
    IF id \in 1..Len(n.heap)
    THEN {<<id, n.heap[id].int_to_neighbor[j][1]>> :
            j \in 1..Len(n.heap[id].int_to_neighbor)}
    ELSE {}

\* The interface ends graph n2 has and graph n1 has not.
NewEnds(n1, n2) ==
    UNION {IntfsOf(n2, id) \ IntfsOf(n1, id) : id \in 1..Len(n2.heap)}

\* line == 'NODES' / line == 'LINKS'
SectionHeader(m) ==
    /\ Reading
    /\ mode # m
    /\ mode' = m
    /\ UNCHANGED <<net, nlines, line, perr, accepted, shown, runVars>>

\* A node or link line before the first section header: else: pass
LineOutsideSection ==
    /\ Reading
    /\ mode = None
    /\ nlines < MaxLines
    /\ nlines' = nlines + 1
    /\ UNCHANGED <<net, mode, line, perr, accepted, shown, runVars>>

NodeLineRead(r) ==
    /\ net' = r.net
    /\ perr' = r.err

\* net.import_node(line)
ReadNodeLine(parts) ==
    /\ Reading
    /\ mode = "node"
    /\ nlines < MaxLines
    /\ NodeLineRead(import_node(net, parts))
    /\ line' = NodeLine(parts)
    /\ nlines' = nlines + 1
    /\ UNCHANGED <<mode, accepted, shown, runVars>>

LinkLineRead(parts, r) ==
    /\ net' = r.net
    /\ perr' = r.err
    /\ accepted' =
         IF r.err = None
         THEN Append(accepted,
                 [parts |-> parts,
                  names |-> {parts[1][1], parts[2][1]},
                  ends |-> NewEnds(net, r.net)])
         ELSE accepted

\* net.import_link(line)
ReadLinkLine(parts) ==
    /\ Reading
    /\ mode = "link"
    /\ nlines < MaxLines
    /\ LinkLineRead(parts, import_link(net, parts))
    /\ line' = LinkLine(parts)
    /\ nlines' = nlines + 1
    /\ UNCHANGED <<mode, shown, runVars>>

\* The end of the file: from_file returns net, which is handed to
\* apply_links and to display.
EndOfFile ==
    /\ Reading
    /\ shown' = <<[links |-> apply_links(net), graph |-> display(net)]>>
    /\ UNCHANGED <<net, mode, nlines, line, perr, accepted, runVars>>

ParseNext ==
    \/ \E m \in {"node", "link"} : SectionHeader(m)
    \/ LineOutsideSection
    \/ \E parts \in NodeLineSet : ReadNodeLine(parts)
    \/ \E parts \in LinkLineSet : ReadLinkLine(parts)
    \/ EndOfFile

SpecParse == ParseInit /\ [][ParseNext]_vars

(***************************************************************************)
(* main: the controller.  One action per external operation, with the      *)
(* spawned host processes, their spawners and the operator acting in       *)
(* between.                                                                *)
(***************************************************************************)
\* The topology descriptions main is run on: scenario A; a line of three
\* hosts, which the link lines create; scenario B, which does not parse; a
\* description without a host.
Topologies ==
    {<<Comment>>,
     <<NODES, NodeLine(<<"a">>), NodeLine(<<"b">>),
       LINKS, LinkLine(<<<<"a">>, <<"b">>>>)>>,
     <<LINKS, LinkLine(<<<<"a">>, <<"b">>>>), LinkLine(<<<<"b">>, <<"c">>>>)>>,
     <<LINKS, LinkLine(<<<<"a", Ip4(1, 1)>>, <<"b", Ip4(1, 1)>>>>)>>}

Init ==
    /\ net = VirtualNetwork
    /\ mode = None /\ nlines = 0 /\ line = Comment
    /\ perr = None /\ accepted = <<>> /\ shown = <<>>
    /\ args \in [config_file : Topologies, display : BOOLEAN]
    /\ RunInit

NumHosts == Len(HostSeq)

\* The host of the running for loop.
Cur == HostSeq[idx]

\* The pid a host process writes into its pid artifact.
PidOf(h) == 100 + h

\* The calls of VirtualNetwork.start, in order: the loop over Host.start,
\* apply_links, signal_hosts('HUP'), wait_for_startup, signal_hosts('HUP').
HupBeforeLinks == <<"start", "hup1", "links", "wait", "hup2">>
LinksBeforeHosts == <<"links", "start", "hup1", "wait", "hup2">>
StartOrder == <<"start", "links", "hup1", "wait", "hup2">>

\* The turns of a call's loop: a for loop over the hosts or the links;
\* wait_for_startup runs at least one pass.
Turns(call) ==
    IF call \in {"start", "hup1", "hup2"} THEN NumHosts
    ELSE IF call = "links" THEN Len(apply_links(net).cmds)
    ELSE 1

\* The first call of start at or after position k whose loop has a turn;
\* after the last, start returns and main enters message_loop.
RECURSIVE CallFrom(_)
CallFrom(k) ==
    IF k > Len(StartOrder) THEN "message_loop"
    ELSE IF Turns(StartOrder[k]) > 0 THEN StartOrder[k]
    ELSE CallFrom(k + 1)

CallAfter(call) ==
    CallFrom(1 + CHOOSE k \in 1..Len(StartOrder) : StartOrder[k] = call)

\* Where the controller is while each function runs.
ConfigPcs == {"config", "config_bind", "config_hosts_file", "config_hosts"}
StartPcs == {"start", "poll_read", "poll_check", "links", "hup1", "wait",
             "wait_read", "hup2"}
TryPcs == ConfigPcs \cup StartPcs \cup {"message_loop"}
CleanupPcs == {"cleanup", "umount", "rm_ns", "rm_cfg", "rm_hosts_file",
               "close_sock", "rm_sock"}

\* try: ... except KeyboardInterrupt: pass  finally: net.cleanup()
\* Where an exception raised in the try block takes main.
OnlyOnInterrupt(e) ==
    IF e.type = "KeyboardInterrupt" THEN "cleanup" ELSE "exit"

Finally(e) ==
    "cleanup"

Raise(e) ==
    /\ error' = e
    /\ pc' = Finally(e)
    /\ idx' = 1
    /\ none_exists' = TRUE
    /\ hist' = hist \cup (IF Finally(e) = "cleanup" THEN {<<"cleanup">>} ELSE {})

\* The running call of start goes on with its next turn or, after its last,
\* start goes on with its next call.
\* start goes on with the call next (or returns: main enters message_loop).
GoOn(next, done) ==
    /\ pc' = next
    /\ idx' = 1
    /\ hist' = hist \cup done
                  \cup (IF next = "message_loop" THEN {<<"started">>} ELSE {})

AdvanceTo(call, turns, next) ==
    /\ IF idx < turns
       THEN /\ pc' = call
            /\ idx' = idx + 1
            /\ hist' = hist
       ELSE GoOn(next, {})
    /\ none_exists' = TRUE
    /\ error' = error

Advance(call) ==
    AdvanceTo(call, Turns(call), CallAfter(call))

\* net = VirtualNetwork.from_file(args.config_file)
\* The graph from_file returned, with the run-time fields of Host.__init__.
Parsed(n, objs) ==
    /\ net' = n
    /\ pid' = [h \in objs |-> 0]
    /\ pidfile' = [h \in objs |-> FALSE]
    /\ config_file' = [h \in objs |-> FALSE]
    /\ netns' = [h \in objs |-> FALSE]
    /\ pidDisk' = [h \in objs |-> "absent"]
    /\ spawner' = [h \in objs |-> "none"]
    /\ proc' = [h \in objs |-> "none"]
    /\ hups' = [h \in objs |-> 0]
    /\ cleaned' = [h \in objs |-> <<>>]
    /\ umounts' = [h \in objs |-> 0]
    /\ pc' = IF args.display THEN "display" ELSE "config"
    /\ hist' = IF args.display THEN hist ELSE {<<"config">>}
    /\ error' = error

\* An exception of from_file leaves main: it is raised before the try block.
ParseErrorIgnored(r) ==
    Parsed(r.net, 1..Len(r.net.heap))

FromFileEnds(r) ==
    IF r.err # None
    THEN /\ error' = [type |-> r.err, host |-> None, at |-> "from_file"]
         /\ pc' = "exit"
         /\ UNCHANGED <<net, hostVars, netns, pidDisk, spawner, proc, hups,
                        cleaned, umounts, hist>>
    ELSE Parsed(r.net, 1..Len(r.net.heap))

\* net = VirtualNetwork.from_file(args.config_file); with no --display, main
\* enters the try block.
FromFileReturns(r) ==
    /\ perr' = r.err
    /\ FromFileEnds(r)

FromFile ==
    /\ pc = "idle"
    /\ FromFileReturns(from_file(args.config_file))
    /\ UNCHANGED <<mode, nlines, line, accepted, shown, args, idx, none_exists,
                   netVars, links, sessionRm, busVars>>

\* net.display(args.output_file): display takes to_screen and output_file,
\* so the call raises TypeError, outside the try block.
DisplayCall ==
    /\ pc = "display"
    /\ error' = [type |-> "TypeError", host |-> None, at |-> "main"]
    /\ pc' = "exit"
    /\ UNCHANGED <<net, parseVars, args, idx, none_exists, hist, hostVars,
                   netVars, osVars, downVars, busVars>>

\* config: mkstemp(suffix='.sock') sets commsock_file; the file is removed.
ConfigSockFile ==
    /\ pc = "config"
    /\ commsock_file' = TRUE
    /\ pc' = "config_bind"
    /\ UNCHANGED <<net, parseVars, args, idx, none_exists, error, hist, hostVars,
                   hosts_file, commsock, osVars, downVars, busVars>>

\* config: self.commsock = socket.socket(...); self.commsock.bind(...)
ConfigBind ==
    /\ pc = "config_bind"
    /\ commsock' = "bound"
    /\ pc' = "config_hosts_file"
    /\ UNCHANGED <<net, parseVars, args, idx, none_exists, error, hist, hostVars,
                   hosts_file, commsock_file, osVars, downVars, busVars>>

\* config: self.create_hosts_file()
CreateHostsFile ==
    /\ pc = "config_hosts_file"
    /\ hosts_file' = TRUE
    /\ IF NumHosts > 0
       THEN pc' = "config_hosts" /\ idx' = 1 /\ hist' = hist
       ELSE GoOn(CallFrom(1), {})
    /\ UNCHANGED <<net, parseVars, args, none_exists, error, hostVars,
                   commsock_file, commsock, osVars, downVars, busVars>>

\* config: host.create_config(self.commsock_file), for one host
CreateConfig ==
    /\ pc = "config_hosts"
    /\ config_file' = [config_file EXCEPT ![Cur] = TRUE]
    /\ IF idx < NumHosts
       THEN pc' = "config_hosts" /\ idx' = idx + 1 /\ hist' = hist
       ELSE GoOn(CallFrom(1), {})
    /\ UNCHANGED <<net, parseVars, args, none_exists, error, pid, pidfile,
                   netVars, osVars, downVars, busVars>>

\* Host.start up to Popen: mkdir -p /run/netns (check=True), touch the
\* namespace placeholder, mkstemp the pid artifact, spawn the terminal.
HostLaunch ==
    /\ pc = "start"
    /\ \E mkdir_ok \in BOOLEAN :
          IF mkdir_ok
          THEN /\ netns' = [netns EXCEPT ![Cur] = TRUE]
               /\ pidfile' = [pidfile EXCEPT ![Cur] = TRUE]
               /\ pidDisk' = [pidDisk EXCEPT ![Cur] = "empty"]
               /\ spawner' = [spawner EXCEPT ![Cur] = "running"]
               /\ proc' = [proc EXCEPT ![Cur] = "alive"]
               /\ pc' = "poll_read"
               /\ UNCHANGED <<idx, none_exists, error, hist>>
          ELSE /\ Raise([type |-> "CalledProcessError", host |-> None, at |-> "Host.start"])
               /\ UNCHANGED <<netns, pidfile, pidDisk, spawner, proc>>
    /\ UNCHANGED <<net, parseVars, args, pid, config_file, netVars, hups, links,
                   downVars, busVars>>

\* int(fh.read()) does not raise ValueError
ReadsAsInt(content) ==
    content = "valid"

\* Host.start's loop: open the pid artifact, self.pid = int(fh.read()); break
PollRead ==
    /\ pc = "poll_read"
    /\ IF pidDisk[Cur] = "absent"
       THEN /\ Raise([type |-> "FileNotFoundError", host |-> None, at |-> "Host.start"])
            /\ pid' = pid
       ELSE IF ReadsAsInt(pidDisk[Cur])
       THEN /\ pid' = [pid EXCEPT ![Cur] = PidOf(Cur)]
            /\ Advance("start")
       ELSE /\ pc' = "poll_check"
            /\ UNCHANGED <<pid, idx, none_exists, error, hist>>
    /\ UNCHANGED <<net, parseVars, args, pidfile, config_file, netVars, osVars,
                   downVars, busVars>>

\* p.poll() is not None
NeverExited(h) ==
    FALSE

SpawnerExited(h) ==
    spawner[h] = "exited"

\* Host.start's loop after ValueError: if the spawner has exited, remove the
\* pid artifact and raise HostNotStarted; else sleep and read again.
PollCheck ==
    /\ pc = "poll_check"
    /\ IF SpawnerExited(Cur)
       THEN /\ pidDisk' = [pidDisk EXCEPT ![Cur] = "absent"]
            /\ Raise([type |-> "HostNotStarted", at |-> "Host.start",
                      host |-> net.heap[Cur].hostname])
       ELSE /\ pc' = "poll_read"
            /\ UNCHANGED <<pidDisk, idx, none_exists, error, hist>>
    /\ UNCHANGED <<net, parseVars, args, hostVars, netVars, netns, spawner, proc,
                   hups, links, downVars, busVars>>

\* subprocess.run(cmd, check=True) raises when the command fails
FailureIgnored == FALSE

LinkFailureRaises == TRUE

\* apply_links: one link-creation command
ApplyLink ==
    /\ pc = "links"
    /\ \E ok \in BOOLEAN :
          IF ok \/ ~LinkFailureRaises
          THEN /\ links' = IF ok THEN links + 1 ELSE links
               /\ Advance("links")
          ELSE /\ Raise([type |-> "CalledProcessError", host |-> None, at |-> "apply_links"])
               /\ links' = links
    /\ UNCHANGED <<net, parseVars, args, hostVars, netVars, netns, pidDisk,
                   spawner, proc, hups, downVars, busVars>>

\* signal_hosts('HUP'): Host.signal for one host
SignalHost ==
    /\ pc \in {"hup1", "hup2"}
    /\ hups' = IF pid[Cur] # 0 THEN [hups EXCEPT ![Cur] = @ + 1] ELSE hups
    /\ Advance(pc)
    /\ UNCHANGED <<net, parseVars, args, hostVars, netVars, netns, pidDisk,
                   spawner, proc, links, downVars, busVars>>

\* wait_for_startup: os.path.exists(host.pidfile), for one host
WaitExists ==
    /\ pc = "wait"
    /\ idx <= NumHosts
    /\ IF pidDisk[Cur] # "absent"
       THEN pc' = "wait_read" /\ idx' = idx
       ELSE pc' = "wait" /\ idx' = idx + 1
    /\ UNCHANGED <<net, parseVars, args, none_exists, error, hist, hostVars,
                   netVars, osVars, downVars, busVars>>

\* subprocess.run(['ps', '-p', pid]).returncode == 0
AlwaysFound(h) ==
    TRUE

ProcessFound(h) ==
    pidDisk[h] = "valid" /\ proc[h] = "alive"

\* wait_for_startup: read the pid artifact and look the process up
WaitRead ==
    /\ pc = "wait_read"
    /\ IF pidDisk[Cur] = "absent"
       THEN /\ Raise([type |-> "FileNotFoundError", host |-> None, at |-> "wait_for_startup"])
            /\ pidDisk' = pidDisk
       ELSE IF ~ProcessFound(Cur)
       THEN /\ pidDisk' = [pidDisk EXCEPT ![Cur] = "absent"]
            /\ Raise([type |-> "HostNotStarted", at |-> "wait_for_startup",
                      host |-> net.heap[Cur].hostname])
       ELSE /\ none_exists' = FALSE
            /\ pc' = "wait"
            /\ idx' = idx + 1
            /\ UNCHANGED <<pidDisk, error, hist>>
    /\ UNCHANGED <<net, parseVars, args, hostVars, netVars, netns, spawner, proc,
                   hups, links, downVars, busVars>>

\* wait_for_startup: the end of a pass: break, or sleep and start over
WaitPassEnd ==
    /\ pc = "wait"
    /\ idx = NumHosts + 1
    /\ IF none_exists
       THEN GoOn(CallAfter("wait"), {<<"waited">>})
       ELSE pc' = "wait" /\ idx' = 1 /\ hist' = hist
    /\ none_exists' = TRUE
    /\ UNCHANGED <<net, parseVars, args, error, hostVars, netVars, osVars,
                   downVars, busVars>>

\* The datagrams hosts send: well-formed ones and one that does not decode
\* as UTF-8 or holds no comma.
Datagrams ==
    {[ok |-> TRUE, hostname |-> "a", msg |-> "M1"],
     [ok |-> TRUE, hostname |-> "a", msg |-> "M2"],
     [ok |-> FALSE, hostname |-> None, msg |-> None]}

\* message_loop: one turn of the loop.  A datagram that fails to decode or
\* to split leaves hostname and msg as they were, and the print that follows
\* the try statement reads them: unbound, it raises NameError.
Receive(data) ==
    /\ pc = "message_loop"
    /\ nrecv < MaxMsgs
    /\ nrecv' = nrecv + 1
    /\ IF data.ok
       THEN /\ bound' = <<data.hostname, data.msg>>
            /\ out' = Append(out, <<data.hostname, data.msg>>)
            /\ diag' = diag
            /\ UNCHANGED <<pc, idx, none_exists, error, hist>>
       ELSE /\ diag' = diag + 1
            /\ bound' = bound
            /\ IF bound = <<>>
               THEN /\ Raise([type |-> "NameError", host |-> None, at |-> "message_loop"])
                    /\ out' = out
               ELSE /\ out' = Append(out, bound)
                    /\ UNCHANGED <<pc, idx, none_exists, error, hist>>
    /\ UNCHANGED <<net, parseVars, args, hostVars, netVars, osVars, downVars>>

\* The operator's Ctrl-C, while main is inside the try block.
Interrupt ==
    /\ pc \in TryPcs
    /\ Raise([type |-> "KeyboardInterrupt", host |-> None, at |-> None])
    /\ UNCHANGED <<net, parseVars, args, hostVars, netVars, osVars, downVars,
                   busVars>>

\* An exception raised inside cleanup leaves the finally clause.
Abort(e) ==
    /\ error' = e
    /\ pc' = "exit"
    /\ idx' = idx
    /\ none_exists' = none_exists
    /\ hist' = hist

\* Host.signal: if self.pid is None: return
AnyPid(h) ==
    TRUE

HasPid(h) ==
    pid[h] # 0

\* Host.cleanup: self.signal('KILL'), which returns at once without a pid
CleanupKill ==
    /\ pc = "cleanup"
    /\ idx <= NumHosts
    /\ IF HasPid(Cur)
       THEN /\ cleaned' = [cleaned EXCEPT ![Cur] = Append(@, "KILL")]
            /\ proc' = [proc EXCEPT ![Cur] = "dead"]
       ELSE UNCHANGED <<cleaned, proc>>
    /\ pc' = "umount"
    /\ UNCHANGED <<net, parseVars, args, idx, none_exists, error, hist, hostVars,
                   netVars, netns, pidDisk, spawner, hups, links, umounts,
                   sessionRm, busVars>>

\* Host.cleanup: one sudo umount; the loop ends when it fails.  It can
\* succeed while the path still has a mount.
CleanupUmount ==
    /\ pc = "umount"
    /\ \E ok \in BOOLEAN :
          /\ ok => netns[Cur] /\ umounts[Cur] < MaxMounts
          /\ IF ok
             THEN /\ umounts' = [umounts EXCEPT ![Cur] = @ + 1]
                  /\ cleaned' = [cleaned EXCEPT ![Cur] = Append(@, "umount")]
                  /\ pc' = "umount"
             ELSE /\ umounts' = umounts
                  /\ cleaned' = [cleaned EXCEPT ![Cur] = Append(@, "umount failed")]
                  /\ pc' = "rm_ns"
    /\ UNCHANGED <<net, parseVars, args, idx, none_exists, error, hist, hostVars,
                   netVars, osVars, sessionRm, busVars>>

\* Host.cleanup: sudo rm /run/netns/<hostname>
CleanupRmNs ==
    /\ pc = "rm_ns"
    /\ cleaned' = [cleaned EXCEPT ![Cur] = Append(@, "rm netns")]
    /\ netns' = [netns EXCEPT ![Cur] = FALSE]
    /\ pc' = "rm_cfg"
    /\ UNCHANGED <<net, parseVars, args, idx, none_exists, error, hist, hostVars,
                   netVars, pidDisk, spawner, proc, hups, links, umounts,
                   sessionRm, busVars>>

\* Host.cleanup: subprocess.run(['rm', self.config_file]), which raises
\* TypeError while config_file is None
CleanupRmConfig ==
    /\ pc = "rm_cfg"
    /\ IF config_file[Cur]
       THEN /\ cleaned' = [cleaned EXCEPT ![Cur] = Append(@, "rm config_file")]
            /\ pc' = IF idx < NumHosts THEN "cleanup" ELSE "rm_hosts_file"
            /\ idx' = IF idx < NumHosts THEN idx + 1 ELSE 1
            /\ UNCHANGED <<none_exists, error, hist>>
       ELSE /\ Abort([type |-> "TypeError", host |-> None, at |-> "cleanup"])
            /\ cleaned' = cleaned
    /\ UNCHANGED <<net, parseVars, args, hostVars, netVars, osVars, umounts,
                   sessionRm, busVars>>

\* VirtualNetwork.cleanup with no host in the graph
CleanupNoHosts ==
    /\ pc = "cleanup"
    /\ NumHosts = 0
    /\ pc' = "rm_hosts_file"
    /\ UNCHANGED <<net, parseVars, args, idx, none_exists, error, hist, hostVars,
                   netVars, osVars, downVars, busVars>>

\* VirtualNetwork.cleanup: subprocess.run(['rm', self.hosts_file])
CleanupHostsFile ==
    /\ pc = "rm_hosts_file"
    /\ IF hosts_file
       THEN /\ sessionRm' = Append(sessionRm, "rm hosts_file")
            /\ pc' = "close_sock"
            /\ UNCHANGED <<idx, none_exists, error, hist>>
       ELSE /\ Abort([type |-> "TypeError", host |-> None, at |-> "cleanup"])
            /\ sessionRm' = sessionRm
    /\ UNCHANGED <<net, parseVars, args, hostVars, netVars, osVars, cleaned,
                   umounts, busVars>>

\* VirtualNetwork.cleanup: self.commsock.close()
CleanupCloseSock ==
    /\ pc = "close_sock"
    /\ IF commsock # "unset"
       THEN /\ commsock' = "closed"
            /\ sessionRm' = Append(sessionRm, "close commsock")
            /\ pc' = "rm_sock"
            /\ UNCHANGED <<idx, none_exists, error, hist>>
       ELSE /\ Abort([type |-> "AttributeError", host |-> None, at |-> "cleanup"])
            /\ UNCHANGED <<commsock, sessionRm>>
    /\ UNCHANGED <<net, parseVars, args, hostVars, hosts_file, commsock_file,
                   osVars, cleaned, umounts, busVars>>

\* VirtualNetwork.cleanup: subprocess.run(['rm', self.commsock_file])
CleanupRmSock ==
    /\ pc = "rm_sock"
    /\ sessionRm' = Append(sessionRm, "rm commsock_file")
    /\ pc' = "exit"
    /\ UNCHANGED <<net, parseVars, args, idx, none_exists, error, hist, hostVars,
                   netVars, osVars, cleaned, umounts, busVars>>

(***************************************************************************)
(* The spawned processes, while start watches them.  The in-namespace      *)
(* program writes its pid into the pid artifact, and removes the artifact  *)
(* once it has been sent HUP and has configured its interfaces; it, and    *)
(* the terminal that spawned it, can exit at any time.                     *)
(***************************************************************************)
Watched(h) ==
    pc \in StartPcs /\ h \in DOMAIN proc /\ proc[h] # "none"

EnvUnchanged ==
    UNCHANGED <<net, parseVars, args, pc, idx, none_exists, error, hostVars,
                netVars, netns, hups, links, downVars, busVars>>

HostWritesPid(h) ==
    /\ Watched(h)
    /\ proc[h] = "alive"
    /\ pidDisk[h] = "empty"
    /\ pidDisk' = [pidDisk EXCEPT ![h] = "valid"]
    /\ UNCHANGED <<spawner, proc, hist>>
    /\ EnvUnchanged

\* hist keeps whether the spawner exited before the artifact held a pid.
SpawnerExits(h) ==
    /\ Watched(h)
    /\ spawner[h] = "running"
    /\ spawner' = [spawner EXCEPT ![h] = "exited"]
    /\ hist' = IF pidDisk[h] = "empty"
               THEN hist \cup {<<"exited before pid", h>>} ELSE hist
    /\ UNCHANGED <<pidDisk, proc>>
    /\ EnvUnchanged

HostDies(h) ==
    /\ Watched(h)
    /\ proc[h] = "alive"
    /\ proc' = [proc EXCEPT ![h] = "dead"]
    /\ UNCHANGED <<pidDisk, spawner, hist>>
    /\ EnvUnchanged

HostRemovesPidfile(h) ==
    /\ Watched(h)
    /\ proc[h] = "alive"
    /\ pidDisk[h] = "valid"
    /\ hups[h] >= 1
    /\ pidDisk' = [pidDisk EXCEPT ![h] = "absent"]
    /\ UNCHANGED <<spawner, proc, hist>>
    /\ EnvUnchanged

Controller ==
    \/ FromFile
    \/ DisplayCall
    \/ ConfigSockFile
    \/ ConfigBind
    \/ CreateHostsFile
    \/ CreateConfig
    \/ HostLaunch
    \/ PollRead
    \/ PollCheck
    \/ ApplyLink
    \/ SignalHost
    \/ WaitExists
    \/ WaitRead
    \/ WaitPassEnd
    \/ CleanupKill
    \/ CleanupUmount
    \/ CleanupRmNs
    \/ CleanupRmConfig
    \/ CleanupNoHosts
    \/ CleanupHostsFile
    \/ CleanupCloseSock
    \/ CleanupRmSock

Environment ==
    \/ \E h \in DOMAIN proc : HostWritesPid(h)
    \/ \E h \in DOMAIN proc : SpawnerExits(h)
    \/ \E h \in DOMAIN proc : HostDies(h)
    \/ \E h \in DOMAIN proc : HostRemovesPidfile(h)
    \/ \E data \in Datagrams : Receive(data)
    \/ Interrupt

Next == Controller \/ Environment

Spec == Init /\ [][Next]_vars

\* The steps of VirtualNetwork.start.
StartSteps ==
    \/ HostLaunch
    \/ PollRead
    \/ PollCheck
    \/ ApplyLink
    \/ SignalHost
    \/ WaitExists
    \/ WaitRead
    \/ WaitPassEnd

\* main is one sequential process: while start has a step to take, it takes
\* it.  Nothing is assumed of the spawned processes or of the operator.
LiveSpec == Init /\ [][Next]_vars /\ WF_vars(StartSteps)

(***************************************************************************)
(* Properties of the graph and of its link enumeration.                    *)
(***************************************************************************)
\* The two interface ends a command or an edge joins.
EndsOf(l) ==
    {<<l.host1, l.int1>>, <<l.host2, l.int2>>}

\* seq holds exactly one entry per accepted link line, joining the two
\* interfaces that line created.
OnePerLinkLine(seq) ==
    /\ Len(seq) = Len(accepted)
    /\ \A k \in 1..Len(accepted) :
          Cardinality({j \in 1..Len(seq) : EndsOf(seq[j]) = accepted[k].ends}) = 1

\* C9: for every graph built from L accepted link lines, apply_links issues
\* exactly L link-creation commands and display adds exactly L edges, one
\* per link line, each joining the two interfaces that line created.
C9_OnePerLinkLine ==
    shown # <<>> =>
        /\ shown[1].links.err = None
        /\ OnePerLinkLine(shown[1].links.cmds)
        /\ shown[1].graph.err = None
        /\ OnePerLinkLine(shown[1].graph.edges)

\* The hostnames the accepted link lines used as endpoints.
LinkedNames ==
    UNION {accepted[k].names : k \in 1..Len(accepted)}

\* The interface ends the accepted link lines made.
LinkedEnds ==
    UNION {accepted[k].ends : k \in 1..Len(accepted)}

\* The object registered under the name of object id is id itself.
Registered(id) ==
    /\ DictHas(net.host_by_name, net.heap[id].hostname)
    /\ DictGet(net.host_by_name, net.heap[id].hostname) = id

\* C10: every hostname used as a link endpoint is registered, the Host
\* registered under a name is the entity carrying every interface made by
\* the link lines naming it, and every neighbor of a registered host is the
\* Host registered under the neighbor's name.
C10_RegisteredHostCarriesLinks ==
    perr = None =>
        /\ \A name \in LinkedNames : DictHas(net.host_by_name, name)
        /\ \A e \in LinkedEnds : Registered(e[1])
        /\ \A i \in 1..Len(HostSeq) :
              /\ IntfsOf(net, HostSeq[i]) =
                    {e \in LinkedEnds :
                        net.heap[e[1]].hostname = net.heap[HostSeq[i]].hostname}
              /\ \A j \in 1..Len(net.heap[HostSeq[i]].int_to_neighbor) :
                    Registered(net.heap[HostSeq[i]].int_to_neighbor[j][2])

(***************************************************************************)
(* Properties of a session.                                                *)
(***************************************************************************)
\* The registered hosts.
Hosts == {HostSeq[i] : i \in 1..NumHosts}

\* The hosts that follow h in host_by_name.
After(h) ==
    {HostSeq[j] : j \in {j \in 1..NumHosts :
                            \E i \in 1..NumHosts : i < j /\ HostSeq[i] = h}}

\* Host.start has not been entered for h.
Unlaunched(h) ==
    ~pidfile[h] /\ spawner[h] = "none" /\ ~netns[h]

\* h reached Running: its namespace placeholder was made and its pid read.
Running(h) ==
    pidfile[h] /\ spawner[h] # "none" /\ pid[h] = PidOf(h)

\* What is left of seq after its leading entries equal to x.
RECURSIVE DropLeading(_, _)
DropLeading(seq, x) ==
    IF seq # <<>> /\ Head(seq) = x THEN DropLeading(Tail(seq), x) ELSE seq

\* Host.cleanup attempted every step for h: KILL when h has a pid, unmounts
\* up to one that fails, the removal of the namespace path and that of the
\* config artifact.
TornDown(h) ==
    /\ pid[h] # 0 => cleaned[h] # <<>> /\ Head(cleaned[h]) = "KILL"
    /\ DropLeading(DropLeading(cleaned[h], "KILL"), "umount")
          = <<"umount failed", "rm netns", "rm config_file">>

\* C1: no host is sent the first HUP before every enumerated link has been
\* created, and none the second HUP before every host was sent the first.
C1_TwoPhaseSignals ==
    \A h \in Hosts :
        /\ hups[h] >= 1 => links = Len(apply_links(net).cmds)
        /\ hups[h] >= 2 => \A g \in Hosts : hups[g] >= 1

C1_Witness ==
    /\ pc = "message_loop"
    /\ links = 2
    /\ \A h \in Hosts : hups[h] = 2

\* C2: a link-creation command is issued only when every host of the graph
\* has its namespace placeholder and has reached Running.
C2_NamespacesBeforeLinks ==
    (pc = "links" \/ (links > 0 /\ pc \in TryPcs)) =>
        \A h \in Hosts : netns[h] /\ Running(h)

C2_Witness ==
    pc = "links" /\ links = 1 /\ NumHosts = 3

\* C3, the state part: HUP is sent a second time only after wait_for_startup
\* returned, and never once HostNotStarted was raised.
SecondHupAfterBarrier ==
    /\ (\E h \in Hosts : hups[h] >= 2) => <<"waited">> \in hist
    /\ error.type = "HostNotStarted" => \A h \in Hosts : hups[h] < 2

\* C3, the step part: the pass that finds a host's process dead while its
\* pid artifact exists raises HostNotStarted naming that host.
DeadHostRaises ==
    (/\ pc = "wait_read"
     /\ pidDisk[Cur] # "absent"
     /\ proc[Cur] # "alive"
     /\ pc' # pc
     /\ error'.type # "KeyboardInterrupt")
    => /\ pc' = "cleanup"
       /\ error' = [type |-> "HostNotStarted", at |-> "wait_for_startup",
                    host |-> net.heap[Cur].hostname]

\* C3: the second HUP follows a normal return of wait_for_startup; a host
\* found dead during the barrier while its pid artifact exists raises
\* HostNotStarted naming it, and then no host is ever sent the second HUP.
C3_LivenessBeforeSecondSignal ==
    []SecondHupAfterBarrier /\ [][DeadHostRaises]_vars

C3_Witness ==
    /\ pc = "exit"
    /\ error.type = "HostNotStarted"
    /\ error.at = "wait_for_startup"
    /\ \A h \in Hosts : hups[h] = 1

\* C4 as claimed: a host whose spawner exited before its pid artifact held a
\* valid integer is never started (Host.start does not return for it).
C4_SpawnerExitAlwaysFatal ==
    \A h \in Hosts : <<"exited before pid", h>> \in hist => pid[h] = 0

\* Host.start raised HostNotStarted for h.
LaunchFailed(h) ==
    /\ error.type = "HostNotStarted"
    /\ error.at = "Host.start"
    /\ error.host = net.heap[h].hostname

\* C4, the step part: a poll that follows a read without a valid integer and
\* finds the spawner exited raises HostNotStarted naming the host.
ExitedSpawnerRaises ==
    (/\ pc = "poll_check"
     /\ spawner[Cur] = "exited"
     /\ pc' # pc
     /\ error'.type # "KeyboardInterrupt")
    => /\ pc' = "cleanup"
       /\ error' = [type |-> "HostNotStarted", at |-> "Host.start",
                    host |-> net.heap[Cur].hostname]

\* C4, the state part: after the launch failure no further host is launched,
\* no link is created, no HUP is sent, and teardown has run for every host
\* when main exits.
AfterLaunchFailure ==
    \A h \in Hosts : LaunchFailed(h) =>
        /\ pid[h] = 0
        /\ \A g \in After(h) : Unlaunched(g) \/ pc \in CleanupPcs \cup {"exit"}
        /\ \A g \in After(h) : pid[g] = 0 /\ spawner[g] = "none"
        /\ links = 0
        /\ \A g \in Hosts : hups[g] = 0
        /\ pc \in CleanupPcs \cup {"exit"}
        /\ pc = "exit" => \A g \in Hosts : TornDown(g)

\* C4 as amended.
C4_LaunchFailure ==
    []AfterLaunchFailure /\ [][ExitedSpawnerRaises]_vars

C4_Witness ==
    /\ pc = "exit"
    /\ NumHosts = 3
    /\ LaunchFailed(HostSeq[2])
    /\ pid[HostSeq[1]] # 0
    /\ "KILL" \in SetOf(cleaned[HostSeq[1]])

\* apply_links raised.
LinkFailed ==
    error.at = "apply_links"

\* C5, the state part.
AfterLinkFailure ==
    LinkFailed =>
        /\ error.type = "CalledProcessError"
        /\ links < Len(apply_links(net).cmds)
        /\ \A h \in Hosts : hups[h] = 0
        /\ pc \in CleanupPcs \cup {"exit"}
        /\ pc = "exit" => \A h \in Hosts : TornDown(h)

\* C5, the step part: a link-creation command that fails ends apply_links,
\* and no command is issued after it.
FailedLinkRaises ==
    /\ (/\ pc = "links"
        /\ links' = links
        /\ <<pc', idx'>> # <<pc, idx>>
        /\ error'.type # "KeyboardInterrupt")
       => pc' = "cleanup" /\ error'.at = "apply_links"
    /\ LinkFailed => links' = links /\ error' = error

\* C5: a failing link creation stops apply_links without the remaining links
\* and without a retry, no HUP is sent, the error leaves start and teardown
\* runs for every host.
C5_LinkFailureFatal ==
    []AfterLinkFailure /\ [][FailedLinkRaises]_vars

C5_Witness ==
    /\ pc = "exit"
    /\ LinkFailed
    /\ links = 1
    /\ Len(apply_links(net).cmds) = 2

\* C6: once main has entered the try block, it exits only after having
\* invoked VirtualNetwork.cleanup.
C6_TeardownTriggered ==
    (pc = "exit" /\ <<"config">> \in hist) => <<"cleanup">> \in hist

C6_Witness ==
    /\ pc = "exit"
    /\ error.type = "HostNotStarted"
    /\ <<"cleanup">> \in hist

\* C7: whenever cleanup was invoked, by the time main exits every teardown
\* step was attempted for every host, and the hosts file and the bus socket
\* were removed.
C7_TeardownComplete ==
    (pc = "exit" /\ <<"cleanup">> \in hist) =>
        /\ \A h \in Hosts : TornDown(h)
        /\ sessionRm = <<"rm hosts_file", "close commsock", "rm commsock_file">>


\* C8: whatever the spawned host processes and their spawners do,
\* VirtualNetwork.start, once entered, eventually returns or raises: neither
\* polling loop spins forever.
C8_StartupNeverHangs ==
    (pc \in StartPcs) ~> (pc \notin StartPcs)

(***************************************************************************)
(* Properties of the interfaces the link lines create.                     *)
(***************************************************************************)
\* The interface names of Host object id in graph n, in the order added.
IntfNames(n, id) ==
    IF id \in 1..Len(n.heap)
    THEN [j \in 1..Len(n.heap[id].int_to_neighbor) |->
             n.heap[id].int_to_neighbor[j][1]]
    ELSE <<>>

\* <hostname>-eth<from> .. <hostname>-eth<from + k - 1>
EthNames(hostname, from, k) ==
    [j \in 1..k |-> IntfName(hostname, from + j - 1)]

\* How many of the two endpoints of a link line name Host object id.
EndpointsOn(n, parts, id) ==
    Cardinality({p \in 1..2 : DictGet(n.host_by_name, parts[p][1]) = id})

\* A link line has just been accepted.
LinkAccepted ==
    Len(accepted') = Len(accepted) + 1

\* C11, the state part: the interface names of a host are pairwise distinct
\* and are <hostname>-eth0 .. <hostname>-eth(k-1).
NamesFromZero ==
    \A id \in Objects :
        /\ IntfNames(net, id)
              = EthNames(net.heap[id].hostname, 0, Len(IntfNames(net, id)))
        /\ \A i, j \in 1..Len(IntfNames(net, id)) :
              i # j => IntfNames(net, id)[i] # IntfNames(net, id)[j]

\* C11, the step part: an accepted link line gives each host one new name per
\* endpoint that names it, at the next indices, and leaves the others alone.
NextIndexPerEndpoint ==
    LinkAccepted =>
        \A id \in 1..Len(net'.heap) :
            IntfNames(net', id)
                = IntfNames(net, id)
                    \o EthNames(net'.heap[id].hostname, Len(IntfNames(net, id)),
                                EndpointsOn(net', line'.parts, id))

\* C11: after any sequence of link lines, the interface names of each host
\* are pairwise distinct and are exactly <hostname>-eth0 ..
\* <hostname>-eth(k-1), k the number of link endpoints added to it; each
\* added endpoint takes the next index, whatever was added to other hosts.
C11_InterfaceNaming ==
    []NamesFromZero /\ [][NextIndexPerEndpoint]_vars

C11_Witness ==
    \E id, other \in Objects :
        /\ Len(IntfNames(net, id)) = 3
        /\ Len(IntfNames(net, other)) = 1
        /\ \E k \in 1..Len(accepted) : Cardinality(accepted[k].names) = 1

\* Interface i of host h, towards neighbor n, is the interface h keeps for
\* n, and n's interface for h leads back to h and to i.
MutualInverse(h, i, n) ==
    /\ DictHas(net.heap[h].neighbor_to_int, n)
    /\ DictGet(net.heap[h].neighbor_to_int, n) = i
    /\ DictHas(net.heap[n].neighbor_to_int, h)
    /\ DictHas(net.heap[n].int_to_neighbor,
               DictGet(net.heap[n].neighbor_to_int, h))
    /\ DictGet(net.heap[n].int_to_neighbor,
               DictGet(net.heap[n].neighbor_to_int, h)) = h

\* C12: after any sequence of accepted link lines every host has at most one
\* interface towards any given neighbor, and int_to_neighbor and
\* neighbor_to_int are mutual inverses, on the host and on its peer.
C12_OneInterfacePerNeighbor ==
    \A h \in SetOf(HostSeq) :
        LET items == net.heap[h].int_to_neighbor
        IN /\ \A j, k \in 1..Len(items) : j # k => items[j][2] # items[k][2]
           /\ \A j \in 1..Len(items) : MutualInverse(h, items[j][1], items[j][2])

\* The addresses of one family that an endpoint of a link line declares.
Declared(endpoint, fam) ==
    {endpoint[i] : i \in {j \in 2..Len(endpoint) :
                            endpoint[j].t = "ip" /\ endpoint[j].fam = fam}}

\* For one family: the two endpoints share no address and, when both have
\* addresses, all of them resolve to one subnet.
FamilyCompatible(A1, A2) ==
    /\ A1 \cap A2 = {}
    /\ (A1 # {} /\ A2 # {}) => Cardinality({Subnet(a) : a \in A1 \cup A2}) = 1

Compatible(parts) ==
    \A fam \in {4, 6} :
        FamilyCompatible(Declared(parts[1], fam), Declared(parts[2], fam))

\* import_link has just been given a line of two endpoints.
LinkLineGiven ==
    /\ mode = "link"
    /\ nlines' = nlines + 1
    /\ Len(line'.parts) >= 2

\* C13, as a property of each step that reads a link line.
CrossChecked ==
    LinkLineGiven =>
        /\ LinkAccepted => Compatible(line'.parts)
        /\ ~Compatible(line'.parts) =>
              /\ perr' = "ValueError"
              /\ ~LinkAccepted
              /\ \A id \in 1..Len(net'.heap) :
                    IntfNames(net', id) = IntfNames(net, id)

NothingExternal ==
    /\ ~hosts_file /\ ~commsock_file /\ commsock = "unset"
    /\ links = 0
    /\ sessionRm = <<>>
    /\ \A h \in DOMAIN netns : ~netns[h] /\ spawner[h] = "none" /\ hups[h] = 0
    /\ \A h \in DOMAIN pidfile : ~pidfile[h] /\ ~config_file[h]
    /\ \A h \in DOMAIN cleaned : cleaned[h] = <<>>

\* C14: when parsing the topology description fails, no external operation
\* was performed before the failure and none is performed after it: main
\* ends with the parser's exception.
C14_ParseErrorsFirst ==
    perr # None =>
        /\ NothingExternal
        /\ pc = "exit"
        /\ error = [type |-> perr, host |-> None, at |-> "from_file"]

C14_Witness ==
    /\ perr = "ValueError"
    /\ pc = "exit"
    /\ Len(net.heap) = 0
    /\ args.config_file # <<>>

\* message_loop has just received a datagram.
Received ==
    pc = "message_loop" /\ nrecv' = nrecv + 1

\* The datagram just received was malformed: the diagnostic was written.
Malformed ==
    diag' = diag + 1

\* C15, as a property of each step that receives a datagram.
BadDatagramSurvived ==
    (Received /\ Malformed /\ error'.type # "KeyboardInterrupt")
        => pc' = "message_loop" /\ error' = error

\* C15: on a datagram that does not decode as UTF-8 or holds no comma,
\* message_loop writes a diagnostic and goes on to receive the next datagram;
\* it does not terminate, be the bad datagram the first one received or not.
C15_BusSurvivesBadDatagrams ==
    [][BadDatagramSurvived]_vars

\* C16, as a property of each step that receives a datagram: bound' holds the
\* hostname and message of a well-formed datagram.
OneLinePerWellFormed ==
    Received =>
        /\ ~Malformed => out' = Append(out, bound')
        /\ Malformed => out' = out

\* C16: message_loop prints exactly one line per well-formed datagram, with
\* its hostname and message, in the order received, and prints no line for a
\* malformed datagram.
C16_BusOutput ==
    [][OneLinePerWellFormed]_vars

(***************************************************************************)
(* Properties of the parser, continued.                                    *)
(***************************************************************************)
\* The attribute list of a node or link line (<<>>: it has none).
AttrsOf(l) ==
    IF l.k = "node" /\ Len(l.parts) = 2 THEN l.parts[2]
    ELSE IF l.k = "link" /\ Len(l.parts) = 3 THEN l.parts[3]
    ELSE <<>>

\* The attribute list holds an unknown key or a token without '='.
BadAttrs(l) ==
    \/ AttrsMalformed(AttrsOf(l))
    \/ ~(AttrKeys(AttrsOf(l))
            \subseteq (IF l.k = "node" THEN HostKeywords ELSE LinkKeywords))

\* C17, as a property of each step that reads a node line or a link line.
BadAttrsRejected ==
    (mode # None /\ nlines' = nlines + 1 /\ BadAttrs(line')) =>
        /\ perr' = "ValueError"
        /\ \A id \in 1..Len(net'.heap) : IntfNames(net', id) = IntfNames(net, id)

\* C17: a node line or a link line whose attribute list holds an unknown key
\* or a token without '=' fails with ValueError, the error the other
\* malformed lines raise, and adds no link to the graph.
C17_AttributeValidation ==
    [][BadAttrsRejected]_vars

(***************************************************************************)
(* Properties of teardown and of the barrier.                              *)
(***************************************************************************)
\* a begins with b.
StartsWith(a, b) ==
    Len(b) <= Len(a) /\ \A i \in 1..Len(b) : a[i] = b[i]

\* How many entries equal to x seq begins with.
RECURSIVE Leading(_, _)
Leading(seq, x) ==
    IF seq # <<>> /\ Head(seq) = x THEN 1 + Leading(Tail(seq), x) ELSE 0

\* The steps of Host.cleanup after the KILL and the unmounts that succeeded.
AfterUmounts(c) ==
    SubSeq(c, Leading(c, "umount") + 1, Len(c))

\* c is a run of Host.cleanup, as far as it got, that began without KILL.
UmountsThenRemovals(h, c) ==
    /\ Leading(c, "umount") = umounts[h]
    /\ umounts[h] <= MaxMounts
    /\ StartsWith(<<"umount failed", "rm netns", "rm config_file">>,
                  AfterUmounts(c))

\* C18: Host.cleanup sends KILL first, and only to a host that has a pid,
\* then repeats the unmount and stops at the first unmount that fails, only
\* then removes the namespace path and after it the config artifact; the
\* unmounts that succeed are no more than the mounts of the path.
C18_TeardownSequence ==
    \A h \in Hosts :
        /\ "KILL" \in SetOf(cleaned[h]) => pid[h] # 0
        /\ (pid[h] # 0 /\ cleaned[h] # <<>>) => Head(cleaned[h]) = "KILL"
        /\ UmountsThenRemovals(h,
              SubSeq(cleaned[h], Leading(cleaned[h], "KILL") + 1, Len(cleaned[h])))
        /\ Leading(cleaned[h], "KILL") <= 1

C18_Witness ==
    /\ pc = "exit"
    /\ \E h, g \in Hosts :
          /\ cleaned[h] = <<"KILL", "umount", "umount failed", "rm netns",
                            "rm config_file">>
          /\ pid[g] = 0
          /\ cleaned[g] = <<"umount failed", "rm netns", "rm config_file">>

\* C19: whatever the interleaving of the hosts removing their pid artifacts
\* (or exiting) with the controller's polling pass, wait_for_startup ends in
\* two ways only: it returns after a pass in which no host's pid artifact
\* existed, or it raises HostNotStarted for a host whose artifact exists and
\* whose process is dead; a host removing its artifact between the existence
\* check and the read produces no other error.
C19_BarrierRaceFreedom ==
    /\ error.at = "wait_for_startup" =>
          /\ error.type = "HostNotStarted"
          /\ \E h \in Hosts : error.host = net.heap[h].hostname /\ proc[h] = "dead"
    /\ (<<"waited">> \in hist /\ pc \in StartPcs) =>
          \A h \in Hosts : pidDisk[h] = "absent"

\* The addresses an endpoint of a link line declares, by kind, in order.
IsIp4(addr) ==
    addr.t = "ip" /\ addr.fam = 4

IsIp6(addr) ==
    addr.t = "ip" /\ addr.fam = 6

\* Interface intf of host h holds what endpoint declares.
RecordsHold(h, intf, endpoint) ==
    /\ endpoint[1] = net.heap[h].hostname
    /\ DictGet(net.heap[h].int_to_mac, intf) = SelectSeq(Tail(endpoint), IsMac)
    /\ DictGet(net.heap[h].int_to_ip4, intf) = SelectSeq(Tail(endpoint), IsIp4)
    /\ DictGet(net.heap[h].int_to_ip6, intf) = SelectSeq(Tail(endpoint), IsIp6)

\* Interface intf of host h has its three records, holding what an endpoint
\* of the link line that created it declares.
Recorded(h, intf) ==
    /\ DictHas(net.heap[h].int_to_mac, intf)
    /\ DictHas(net.heap[h].int_to_ip4, intf)
    /\ DictHas(net.heap[h].int_to_ip6, intf)
    /\ \E k \in 1..Len(accepted) :
          /\ <<h, intf>> \in accepted[k].ends
          /\ \E p \in 1..2 : RecordsHold(h, intf, accepted[k].parts[p])

\* C20: after any sequence of accepted link lines, a line naming one host at
\* both ends included, every interface of every host has an entry in
\* int_to_mac, int_to_ip4 and int_to_ip6 that holds the MAC and the address
\* lists its endpoint declares, so that create_config can write its line.
C20_InterfaceRecordsComplete ==
    \A h \in SetOf(HostSeq) :
        \A j \in 1..Len(net.heap[h].int_to_neighbor) :
            Recorded(h, net.heap[h].int_to_neighbor[j][1])

====
